---- MODULE Spec2Model ----
(***************************************************************************)
(* The emotion quintile-analysis engine of dialogos                        *)
(* (backend/processors/sentiment_processor.py, class SentimentProcessor). *)
(*                                                                         *)
(* Times are whole seconds and scores are whole score units, so that the   *)
(* arithmetic of the engine (midpoints, fifths of the conversation,        *)
(* duration weights) is exact: a weighted score is kept as a numerator     *)
(* over the group's total duration.                                        *)
(***************************************************************************)
EXTENDS Integers, Sequences, FiniteSets, TLC

VARIABLES
    predictions,          \* self.predictions: the decoded payload
    loaded,               \* the payload as _load_predictions decoded it (history)
    hashseed,             \* the interpreter's string-hash seed (fixes set iteration order)
    argsort,              \* the order the build's sort gave the rows of this payload, once known
    processed_data,       \* self.processed_data
    top_sentiments,       \* self.top_sentiments
    quintile_analysis,    \* self.quintile_analysis
    conversation_length,  \* self.conversation_length
    length_dtype,         \* the Python type of the value of self.conversation_length
    saved,                \* what save_quintile_analysis returned and wrote since the last call above
    result,               \* what the last call of process_sentiment_data returned
    frame,                \* locals of the last call: streamlined_df, weights, weighted_emotions
    previous              \* what the call before the last one returned and reported

VARIABLES
    processing_jobs,      \* api.processing_jobs: job id -> {status, ...}
    background_tasks,     \* the process_file_background calls scheduled and not yet run
    job_mappings,         \* orchestrator.job_mappings: file basename -> Hume job id
    outcomes              \* the task run for a job and what the services it called did (history)

processor_vars ==
    <<predictions, loaded, hashseed, argsort, processed_data, top_sentiments,
      quintile_analysis, conversation_length, length_dtype, saved, result, frame,
      previous>>

api_vars == <<processing_jobs, background_tasks, job_mappings, outcomes>>

vars == <<processor_vars, api_vars>>

----------------------------------------------------------------------------
(* Bounds of the model *)

MaxTime == 3
MaxScore == 2
MaxSpans == 2
MaxEmotions == 1
MaxSeed == 1
MaxSparse == 2
MaxJobs == 2
LongLen == 16

(* Constants of the program *)

MaxSlots == 15
TopSentiments == 15
TopEmotions == 5
NumQuintiles == 5

----------------------------------------------------------------------------
(* Python values *)

None == [type |-> "NoneType"]
EmptyDict == <<>>
NotCalled == [type |-> "not called"]

Get(d, k, default) == IF k \in DOMAIN d THEN d[k] ELSE default

Min(a, b) == IF a < b THEN a ELSE b

RECURSIVE Flatten(_)
Flatten(ss) == IF ss = <<>> THEN <<>> ELSE Head(ss) \o Flatten(Tail(ss))

RECURSIVE SumSeq(_)
SumSeq(s) == IF s = <<>> THEN 0 ELSE Head(s) + SumSeq(Tail(s))

(* int(n / d) of Python for d > 0: truncation toward zero *)
IntDiv(n, d) == IF n >= 0 THEN n \div d ELSE -((-n) \div d)

(* sorted(items, key=..., reverse=True) on a sequence of [k, v] records: *)
(* descending by k, equal keys keep their original order                 *)
sorted_reverse(s) ==
    LET n == Len(s)
        rank(i) == 1 + Cardinality({j \in 1..n :
                        s[j].k > s[i].k \/ (s[j].k = s[i].k /\ j < i)})
    IN [p \in 1..n |-> s[CHOOSE i \in 1..n : rank(i) = p]]

DecStr == <<"1", "2", "3", "4", "5", "6", "7", "8", "9", "10",
            "11", "12", "13", "14", "15", "16", "17", "18", "19", "20">>

----------------------------------------------------------------------------
(* The payloads the engine is run on.  A payload is JSON-decoded data:    *)
(* a Python list is [type |-> "list", value |-> sequence], a mapping is a *)
(* record (a key is present iff it is in the record's DOMAIN).            *)

Speakers == {"A", "B"}
Times == 0..MaxTime

Emotion(n, s) == [name |-> n, score |-> s]

FixedList == <<Emotion("Calm", 1), Emotion("Joy", MaxScore)>>

(* more entries than a segment has slots, with pairwise different scores *)
LongList == [i \in 1..LongLen |-> Emotion("E" \o DecStr[i], (i * 7 + 3) % LongLen)]

(* one name in two entries of a list *)
RepeatedList == <<Emotion("Joy", 1), Emotion("Joy", MaxScore)>>

(* the empty list, and lists of MaxEmotions entries that repeat one entry *)
ShortLists ==
    {RepeatedList}
    \cup {[i \in 1..k |-> e] :
             k \in {0, MaxEmotions},
             e \in {Emotion("Joy", s) : s \in 1..MaxScore} \cup {Emotion("7", 1)}}

VocabularyLists ==
    {LongList, <<Emotion("E1", MaxScore), Emotion("Joy", 1), Emotion("E1", 1)>>}

NameUniverse == <<"Joy", "Calm", "7">> \o [i \in 1..LongLen |-> "E" \o DecStr[i]]

FlatSpan(ch, sp, b, e, ems) == [ch |-> ch, sp |-> sp, b |-> b, e |-> e, ems |-> ems]

(* spans of one speaker that end before they begin, one emotion list *)
TimeSpans ==
    {FlatSpan("prosody", "A", t[1], t[2], FixedList) :
        t \in {u \in Times \X Times : u[1] > u[2]}}

(* spans that end no earlier than they begin: any such span of one speaker, *)
(* a first and a last span of another, and a span of it without emotions    *)
SpeakerSpans ==
    {FlatSpan("prosody", "A", t[1], t[2], FixedList) :
        t \in {u \in Times \X Times : u[1] <= u[2]}}
    \cup {FlatSpan("prosody", "B", t[1], t[2], FixedList) :
             t \in {<<0, 1>>, <<MaxTime, MaxTime>>}}
    \cup {FlatSpan("prosody", "B", 0, 1, <<>>)}

(* spans of one speaker that share their midpoint, with differing emotion lists *)
EmotionSpans ==
    {FlatSpan("prosody", "A", b, MaxTime - b, ems) :
        b \in {0, MaxTime \div 2}, ems \in ShortLists}

(* spans that carry more names than the vocabulary holds *)
VocabularySpans ==
    {FlatSpan("prosody", "A", 0, MaxTime, ems) : ems \in VocabularyLists}

(* the list of a span of the language channel *)
LanguageList == <<Emotion("7", 1)>>

(* spans of both channels, with keys that differ in one component or in none *)
ChannelSpans ==
    {FlatSpan(ch, k[1], k[2], k[3], IF ch = "prosody" THEN FixedList ELSE LanguageList) :
        ch \in {"prosody", "language"},
        k \in {<<"A", 0, 1>>, <<"A", 0, MaxTime>>, <<"A", 1, MaxTime>>, <<"B", 0, 1>>}}

(* spans of both channels with one key, for payloads of several result items *)
ItemSpans ==
    {FlatSpan(ch, "A", 0, MaxTime, IF ch = "prosody" THEN FixedList ELSE LanguageList) :
        ch \in {"prosody", "language"}}

(* a JSON value that is not a mapping *)
Scalar(v) == [type |-> "str", value |-> v]

(* a span whose time field is a string, and well-formed spans next to it *)
MalformedSpans ==
    {FlatSpan(ch, "A", 0, 0, FixedList) @@ [time |-> Scalar("0:01")] :
        ch \in {"prosody", "language"}}
    \cup {FlatSpan("prosody", "A", 0, MaxTime, FixedList)}

(* the optional fields of a span and of its speaker group *)
Omissions == {"time", "begin", "end", "text", "id"}

(* spans that lack one optional field *)
SparseSpans ==
    {FlatSpan(ch, "A", 1, MaxTime, IF ch = "prosody" THEN FixedList ELSE LanguageList)
        @@ [omit |-> o] :
        ch \in {"prosody", "language"}, o \in Omissions}

SeqsUpTo(S, n) == UNION {[1..k -> S] : k \in 0..n}

(* the sequences of up to two spans, and the longer ones of up to n spans *)
(* that repeat one span                                                   *)
SpanSeqs(S, n) ==
    SeqsUpTo(S, Min(n, 2))
    \cup {[i \in 1..k |-> f] : f \in S, k \in 3..n}

SpanOf(f) ==
    [time |-> IF "time" \in DOMAIN f THEN f.time ELSE [begin |-> f.b, end |-> f.e],
     text |-> "hello"]
    @@ (IF f.ch = "prosody" THEN [emotions |-> f.ems] ELSE [sentiment |-> f.ems])

(* adjacent spans of one speaker form one speaker group *)
RECURSIVE GroupsOf(_)
GroupsOf(fs) ==
    IF fs = <<>> THEN <<>>
    ELSE LET h == Head(fs)
             rest == GroupsOf(Tail(fs))
         IN IF rest # <<>> /\ Head(rest).id = h.sp
            THEN <<[id |-> h.sp, predictions |-> <<SpanOf(h)>> \o Head(rest).predictions]>>
                 \o Tail(rest)
            ELSE <<[id |-> h.sp, predictions |-> <<SpanOf(h)>>]>> \o rest

(* a speaker group of its own for a span that lacks a field *)
SparseGroup(f) ==
    LET time == IF f.omit = "begin" THEN [end |-> f.e]
                ELSE IF f.omit = "end" THEN [begin |-> f.b]
                ELSE [begin |-> f.b, end |-> f.e]
        span == (IF f.omit = "time" THEN <<>> ELSE [time |-> time])
                @@ (IF f.omit = "text" THEN <<>> ELSE [text |-> "hello"])
                @@ (IF f.ch = "prosody" THEN [emotions |-> f.ems] ELSE [sentiment |-> f.ems])
    IN (IF f.omit = "id" THEN <<>> ELSE [id |-> f.sp]) @@ [predictions |-> <<span>>]

SparseItem(fs) ==
    LET pros == SelectSeq(fs, LAMBDA f : f.ch = "prosody")
        lang == SelectSeq(fs, LAMBDA f : f.ch = "language")
    IN [models |->
          (IF pros # <<>>
           THEN [prosody |-> [grouped_predictions |->
                                 [i \in 1..Len(pros) |-> SparseGroup(pros[i])]]]
           ELSE <<>>)
          @@ (IF lang # <<>>
              THEN [language |-> [grouped_predictions |->
                                     [i \in 1..Len(lang) |-> SparseGroup(lang[i])]]]
              ELSE <<>>)]

Sparse(fs) ==
    [type |-> "list",
     value |-> <<[source |-> "file", results |-> [predictions |-> <<SparseItem(fs)>>]]>>]

ResultItem(fs) ==
    LET pros == SelectSeq(fs, LAMBDA f : f.ch = "prosody")
        lang == SelectSeq(fs, LAMBDA f : f.ch = "language")
    IN [models |->
          (IF pros # <<>> THEN [prosody |-> [grouped_predictions |-> GroupsOf(pros)]]
                          ELSE <<>>)
          @@ (IF lang # <<>> THEN [language |-> [grouped_predictions |-> GroupsOf(lang)]]
                             ELSE <<>>)]

Wrapped(fs) ==
    [type |-> "list",
     value |-> <<[source |-> "file", results |-> [predictions |-> <<ResultItem(fs)>>]]>>]

(* one wrapper object whose results hold one result item per element of fss *)
WrappedItems(fss) ==
    [type |-> "list",
     value |-> <<[source |-> "file",
                  results |-> [predictions |-> [i \in 1..Len(fss) |-> ResultItem(fss[i])]]]>>]

Unwrapped(fs) == [type |-> "dict", value |-> ResultItem(fs)]

Payloads ==
    {None, [type |-> "list", value |-> <<>>]}
    \cup {Wrapped(fs) : fs \in SpanSeqs(TimeSpans, MaxSpans)}
    \cup {Wrapped(fs) : fs \in SpanSeqs(SpeakerSpans, MaxSpans)}
    \cup {Wrapped(fs) : fs \in SpanSeqs(EmotionSpans, MaxSpans)}
    \cup {Wrapped(fs) : fs \in SeqsUpTo(VocabularySpans, MaxSpans)}
    \cup {Wrapped(fs) : fs \in SpanSeqs(ChannelSpans, MaxSpans)}
    \cup {Wrapped(fs) : fs \in SeqsUpTo(MalformedSpans, MaxSpans)}
    \cup {WrappedItems(<<fs1, fs2>>) : fs1 \in SeqsUpTo(ItemSpans, 1), fs2 \in SeqsUpTo(ItemSpans, 1)}
    \cup {Unwrapped(fs) : fs \in SeqsUpTo(ChannelSpans, 1)}
    \cup {Sparse(fs) : fs \in SpanSeqs(SparseSpans, MaxSparse)}

----------------------------------------------------------------------------
(* process_sentiment_data, lines 117-207: the segments of a payload *)

(* the slots filled from the list in the order of the payload (no sorted()) *)
SlotsInListOrder(list) ==
    [i \in 1..Min(MaxSlots, Len(list)) |->
        [name |-> Get(list[i], "name", "Unknown"), score |-> Get(list[i], "score", 0)]]

(* lines 149-154 and 194-199: the (up to 15) slots of a span *)
Slots(list) ==
    LET ranked == sorted_reverse([i \in 1..Len(list) |->
                      [k |-> Get(list[i], "score", 0), v |-> list[i]]])
        top == SubSeq(ranked, 1, Min(MaxSlots, Len(ranked)))
    IN [i \in 1..Len(top) |->
          [name |-> Get(top[i].v, "name", "Unknown"), score |-> Get(top[i].v, "score", 0)]]

(* a segment whose missing end is taken to be its begin *)
SegmentDataEndAtBegin(speaker_id, segment, key) ==
    [speaker_id |-> speaker_id,
     start_time |-> Get(Get(segment, "time", EmptyDict), "begin", 0),
     end_time |-> Get(Get(segment, "time", EmptyDict), "end",
                      Get(Get(segment, "time", EmptyDict), "begin", 0)),
     end_time_type |-> IF "end" \in DOMAIN Get(segment, "time", EmptyDict)
                       THEN "float" ELSE "int",
     text |-> Get(segment, "text", ""),
     slots |-> IF key \in DOMAIN segment THEN Slots(segment[key]) ELSE <<>>]

(* lines 138-154 (key "emotions") and 179-199 (key "sentiment"); a time of *)
(* the payload is a float (fractional seconds), the default of lines 141   *)
(* and 180 is the int 0                                                    *)
SegmentData(speaker_id, segment, key) ==
    [speaker_id |-> speaker_id,
     start_time |-> Get(Get(segment, "time", EmptyDict), "begin", 0),
     end_time |-> Get(Get(segment, "time", EmptyDict), "end", 0),
     end_time_type |-> IF "end" \in DOMAIN Get(segment, "time", EmptyDict)
                       THEN "float" ELSE "int",
     text |-> Get(segment, "text", ""),
     slots |-> IF key \in DOMAIN segment THEN Slots(segment[key]) ELSE <<>>]

(* lines 130-137 and 170-177: the spans of one speaker group, in order *)
GroupSegments(speaker_group, channel, key) ==
    LET speaker_id == Get(speaker_group, "id", "unknown")
    IN IF "predictions" \in DOMAIN speaker_group
       THEN [i \in 1..Len(speaker_group.predictions) |->
               [channel |-> channel,
                speaker_group |-> speaker_group,
                segment |-> speaker_group.predictions[i],
                segment_data |-> SegmentData(speaker_id, speaker_group.predictions[i], key)]]
       ELSE <<>>

(* lines 123-128 and 163-168: the spans of one channel of a result item *)
ChannelSegments(result_item, channel, key) ==
    IF "models" \in DOMAIN result_item /\ channel \in DOMAIN result_item.models
    THEN LET channel_data == result_item.models[channel]
         IN IF "grouped_predictions" \in DOMAIN channel_data
            THEN Flatten([g \in 1..Len(channel_data.grouped_predictions) |->
                     GroupSegments(channel_data.grouped_predictions[g], channel, key)])
            ELSE <<>>
    ELSE <<>>

(* lines 119-121: the spans in the order the loops visit them *)
Visits(preds) ==
    Flatten([p \in 1..Len(preds) |->
        LET pred_item == preds[p]
        IN IF "source" \in DOMAIN pred_item /\ "results" \in DOMAIN pred_item
              /\ "predictions" \in DOMAIN pred_item.results
           THEN Flatten([r \in 1..Len(pred_item.results.predictions) |->
                    LET result_item == pred_item.results.predictions[r]
                    IN ChannelSegments(result_item, "prosody", "emotions")
                       \o ChannelSegments(result_item, "language", "sentiment")])
           ELSE <<>>])

(* line 160: a prosody span is always appended; lines 204-207: a language *)
(* span is appended unless a row with its key is already in data          *)
RECURSIVE Collect(_, _)
Collect(visits, data) ==
    IF visits = <<>> THEN data
    ELSE LET v == Head(visits)
             d == v.segment_data
             present == \E i \in 1..Len(data) :
                            /\ data[i].speaker_id = d.speaker_id
                            /\ data[i].start_time = d.start_time
                            /\ data[i].end_time = d.end_time
         IN Collect(Tail(visits),
                    IF v.channel = "prosody" \/ ~present THEN Append(data, d) ELSE data)

(* lines 112-207 *)
ExtractSegments(p) ==
    IF p.type = "list" /\ Len(p.value) > 0 THEN Collect(Visits(p.value), <<>>) ELSE <<>>

IsMapping(v) == "type" \notin DOMAIN v

(* lines 140-141 and 179-180: segment.get("time", {}).get(...) raises *)
(* AttributeError when the time field is not a mapping                *)
SpanRaises(segment) == "time" \in DOMAIN segment /\ ~IsMapping(segment.time)

(* an exception raised inside the try block of lines 114-268 *)
Raises(p) ==
    /\ p.type = "list" /\ Len(p.value) > 0
    /\ LET visits == Visits(p.value)
       IN \E v \in 1..Len(visits) : SpanRaises(visits[v].segment)

AttributeError == [type |-> "exception", name |-> "AttributeError"]

(* the exception reaching the caller (no except clause) *)
Uncaught(e) == e

(* lines 269-272: except Exception: log and return None *)
Caught(e) == None

----------------------------------------------------------------------------
(* process_sentiment_data, lines 217-255: table, buckets, vocabulary *)

BaseColumns == <<"speaker_id", "start_time", "end_time", "text">>

SlotColumns(i) == <<"sentiment_" \o DecStr[i], "sentiment_score_" \o DecStr[i]>>

MaxOf(S) == CHOOSE m \in S : \A x \in S : x <= m

(* line 218: pd.DataFrame(data): the columns are the keys of the rows; a row *)
(* with fewer slots than another holds NaN in the slot columns it lacks      *)
DataFrame(data) ==
    LET width == MaxOf({Len(data[r].slots) : r \in 1..Len(data)})
    IN [columns |-> BaseColumns \o Flatten([i \in 1..width |-> SlotColumns(i)]),
        rows |-> data]

(* lines 219-220: sort_values('start_time') uses the default sort kind, which *)
(* is not a stable one: rows of equal start_time may come out in any order    *)
ArgSorts(df) ==
    LET n == Len(df.rows)
    IN {q \in Permutations(1..n) :
          \A i, j \in 1..n : i < j => df.rows[q[i]].start_time <= df.rows[q[j]].start_time}

(* the rows taken in the order of an argsort, and reset_index *)
Take(df, p) == [columns |-> df.columns, rows |-> [i \in 1..Len(df.rows) |-> df.rows[p[i]]]]

sort_values(df) == {Take(df, p) : p \in ArgSorts(df)}

(* the sort is a function of its input: a table sorted before comes out as before *)
SortsAs(known, p) == known = <<>> \/ known = p

(* the length read through self.conversation_length is the one left by an earlier call *)
LengthLeftBehind(stored, length) == stored

(* line 223 assigns self.conversation_length before lines 227-230 read it *)
LengthSeen(stored, length) == length

(* lines 218 and 223: the end_time column of a table whose rows all hold an *)
(* int is an int64 column and its max() a numpy.int64; with a float in the  *)
(* column it is a numpy.float64                                             *)
MaxEndTimeType(df) ==
    IF \A r \in 1..Len(df.rows) : df.rows[r].end_time_type = "int"
    THEN "int64" ELSE "float64"

(* line 223 *)
MaxEndTime(df) == MaxOf({df.rows[r].end_time : r \in 1..Len(df.rows)})

(* _determine_quintile without the clamp of lines 297-298 *)
determine_quintile_unclamped(length, start_time, end_time) ==
    IF length = 0 THEN 0
    ELSE IntDiv((start_time + end_time) * NumQuintiles, 2 * length)

(* _determine_quintile deciding by start_time instead of the midpoint *)
determine_quintile_by_start(length, start_time, end_time) ==
    IF length = 0 THEN 0
    ELSE LET quintile == IntDiv(start_time * NumQuintiles, length)
         IN IF quintile = 5 THEN 4 ELSE quintile

(* lines 274-300; midpoint and quintile_size are kept as fractions *)
determine_quintile(length, start_time, end_time) ==
    IF length = 0 THEN 0
    ELSE LET midpoint == [num |-> start_time + end_time, den |-> 2]
             quintile_size == [num |-> length, den |-> NumQuintiles]
             quintile == IntDiv(midpoint.num * quintile_size.den,
                                midpoint.den * quintile_size.num)
         IN IF quintile = 5 THEN 4 ELSE quintile

(* lines 227-230 *)
WithQuintile(df, length) ==
    [columns |-> Append(df.columns, "quintile"),
     rows |-> [r \in 1..Len(df.rows) |->
                 df.rows[r] @@ [quintile |->
                     determine_quintile(length, df.rows[r].start_time, df.rows[r].end_time)]]]

(* the order in which a set of names is iterated under a hash seed *)
HashOrder(seed) ==
    LET n == Len(NameUniverse)
        rotated == [i \in 1..n |-> NameUniverse[((i - 1 + seed) % n) + 1]]
    IN IF seed % 2 = 0 THEN rotated ELSE [i \in 1..n |-> rotated[n + 1 - i]]

SetIteration(S, seed) == SelectSeq(HashOrder(seed), LAMBDA x : x \in S)

(* lines 237-241 *)
AllSentiments(df) ==
    UNION {{df.rows[r].slots[i].name : i \in 1..Len(df.rows[r].slots)} :
           r \in 1..Len(df.rows)}

(* the number of segments that hold the name, each segment counted once *)
SentimentCountSegments(df, sentiment) ==
    Cardinality({r \in 1..Len(df.rows) :
        \E i \in 1..Len(df.rows[r].slots) : df.rows[r].slots[i].name = sentiment})

(* lines 246-251 *)
SentimentCount(df, sentiment) ==
    SumSeq([i \in 1..MaxSlots |->
        Cardinality({r \in 1..Len(df.rows) :
            i <= Len(df.rows[r].slots) /\ df.rows[r].slots[i].name = sentiment})])

(* the vocabulary sorted by ascending count (reverse=True left out) *)
TopSentimentsAscending(df, seed) ==
    LET order == SetIteration(AllSentiments(df), seed)
        sentiment_counts == [i \in 1..Len(order) |->
                                [k |-> 0 - SentimentCount(df, order[i]), v |-> order[i]]]
        ranked == sorted_reverse(sentiment_counts)
    IN [i \in 1..Min(TopSentiments, Len(ranked)) |-> ranked[i].v]

(* lines 244-251: sentiment_counts, in the order the set is iterated *)
SentimentCounts(df, seed) ==
    LET order == SetIteration(AllSentiments(df), seed)
    IN [i \in 1..Len(order) |-> [name |-> order[i], count |-> SentimentCount(df, order[i])]]

(* lines 244-255 *)
TopSentimentsOf(df, seed) ==
    LET order == SetIteration(AllSentiments(df), seed)
        sentiment_counts == [i \in 1..Len(order) |->
                                [k |-> SentimentCount(df, order[i]), v |-> order[i]]]
        ranked == sorted_reverse(sentiment_counts)
    IN [i \in 1..Min(TopSentiments, Len(ranked)) |-> ranked[i].v]

----------------------------------------------------------------------------
(* _create_streamlined_data, lines 403-434 *)

(* the cell filled with the maximum of the matching slots' scores *)
RECURSIVE FillCellMax(_, _, _, _)
FillCellMax(row, sentiment, i, cell) ==
    IF i > MaxSlots THEN cell
    ELSE FillCellMax(row, sentiment, i + 1,
                     IF /\ i <= Len(row.slots) /\ row.slots[i].name = sentiment
                        /\ row.slots[i].score > cell
                     THEN row.slots[i].score ELSE cell)

(* lines 416-427 for one row: the cell starts at 0.0 and every slot 1..15 *)
(* that holds the sentiment overwrites it with its score                  *)
RECURSIVE FillCell(_, _, _, _)
FillCell(row, sentiment, i, cell) ==
    IF i > MaxSlots THEN cell
    ELSE FillCell(row, sentiment, i + 1,
                  IF i <= Len(row.slots) /\ row.slots[i].name = sentiment
                  THEN row.slots[i].score ELSE cell)

create_streamlined_data(df, top) ==
    [columns |-> BaseColumns \o <<"quintile">> \o top,
     rows |-> [r \in 1..Len(df.rows) |->
                 [speaker_id |-> df.rows[r].speaker_id,
                  start_time |-> df.rows[r].start_time,
                  end_time |-> df.rows[r].end_time,
                  text |-> df.rows[r].text,
                  quintile |-> df.rows[r].quintile,
                  cells |-> [c \in {top[i] : i \in 1..Len(top)} |->
                                FillCell(df.rows[r], c, 1, 0)]]]]

----------------------------------------------------------------------------
(* _analyze_quintiles, lines 302-401 *)

DigitStrings == {DecStr[i] : i \in 1..Len(DecStr)}

(* lines 361-362: str.isdigit() *)
IsDigit(name) == name \in DigitStrings

(* the rows of a quintile without the filter on the speaker of line 323 *)
QuintileDataAnySpeaker(df, speaker, quintile) ==
    SelectSeq(df.rows, LAMBDA row : row.quintile = quintile)

(* lines 323 and 331: the rows of one speaker in one quintile, in table order *)
QuintileData(df, speaker, quintile) ==
    SelectSeq(df.rows, LAMBDA row : row.speaker_id = speaker /\ row.quintile = quintile)

(* line 338 *)
Duration(row) == row.end_time - row.start_time

(* total_duration taken over all the rows of the speaker *)
TotalDurationOfSpeaker(df, speaker, quintile) ==
    LET speaker_data == SelectSeq(df.rows, LAMBDA row : row.speaker_id = speaker)
    IN SumSeq([r \in 1..Len(speaker_data) |-> Duration(speaker_data[r])])

(* total_duration taken over the rows of the quintile of every speaker *)
TotalDurationAnySpeaker(df, speaker, quintile) ==
    LET quintile_data == SelectSeq(df.rows, LAMBDA row : row.quintile = quintile)
    IN SumSeq([r \in 1..Len(quintile_data) |-> Duration(quintile_data[r])])

(* lines 338-339: the total duration of the rows of the group *)
TotalDuration(df, speaker, quintile) ==
    LET quintile_data == QuintileData(df, speaker, quintile)
    IN SumSeq([r \in 1..Len(quintile_data) |-> Duration(quintile_data[r])])

(* line 347: the weight of a segment, a fraction *)
Weight(segment_duration, total_duration) ==
    IF total_duration > 0 THEN [num |-> segment_duration, den |-> total_duration]
    ELSE [num |-> 0, den |-> 1]

(* lines 365-369: weighted_emotions[name] += score * weight; the map keeps *)
(* the order in which its names were first added; all weights of a group   *)
(* have the same denominator, so a value is kept as its numerator          *)
AddWeighted(weighted_emotions, name, score, weight) ==
    IF \E k \in 1..Len(weighted_emotions) : weighted_emotions[k].name = name
    THEN LET k == CHOOSE j \in 1..Len(weighted_emotions) : weighted_emotions[j].name = name
         IN [weighted_emotions EXCEPT ![k].num = @ + score * weight.num]
    ELSE Append(weighted_emotions, [name |-> name, num |-> 0 + score * weight.num])

(* lines 350-369: the slots 1..15 of one segment *)
RECURSIVE AddSlots(_, _, _, _)
AddSlots(weighted_emotions, segment, weight, i) ==
    IF i > MaxSlots THEN weighted_emotions
    ELSE IF i <= Len(segment.slots)
         THEN LET sentiment_name == segment.slots[i].name
                  label == IF IsDigit(sentiment_name)
                           THEN "Emotion_" \o sentiment_name ELSE sentiment_name
              IN AddSlots(AddWeighted(weighted_emotions, label,
                                      segment.slots[i].score, weight),
                          segment, weight, i + 1)
         ELSE AddSlots(weighted_emotions, segment, weight, i + 1)

(* lines 342-369: the segments of the group, in order *)
RECURSIVE WeightedEmotions(_, _, _)
WeightedEmotions(quintile_data, total_duration, acc) ==
    IF quintile_data = <<>> THEN acc
    ELSE WeightedEmotions(Tail(quintile_data), total_duration,
            AddSlots(acc, Head(quintile_data),
                     Weight(Duration(Head(quintile_data)), total_duration), 1))

Denominator(total_duration) == Weight(0, total_duration).den

(* the last item of maximal value *)
MaxItemLast(items) ==
    items[CHOOSE k \in 1..Len(items) :
            /\ \A j \in 1..Len(items) : items[j].num <= items[k].num
            /\ \A j \in (k + 1)..Len(items) : items[j].num < items[k].num]

(* line 373: max(items, key=value) returns the first item of maximal value *)
MaxItem(items) ==
    items[CHOOSE k \in 1..Len(items) :
            /\ \A j \in 1..Len(items) : items[j].num <= items[k].num
            /\ \A j \in 1..(k - 1) : items[j].num < items[k].num]

(* top_emotions sorted by ascending score (reverse=True left out) *)
TopItemsAscending(items) ==
    LET ranked == sorted_reverse([k \in 1..Len(items) |-> [k |-> 0 - items[k].num, v |-> items[k]]])
    IN [k \in 1..Min(TopEmotions, Len(ranked)) |-> ranked[k].v]

(* lines 386-390 *)
TopItems(items) ==
    LET ranked == sorted_reverse([k \in 1..Len(items) |-> [k |-> items[k].num, v |-> items[k]]])
    IN [k \in 1..Min(TopEmotions, Len(ranked)) |-> ranked[k].v]

(* line 383: a bound of the time range, printed with two decimals, in hundredths *)
Format2(num, den) == (num * 100) \div den

(* the label built from quintile + 2 *)
QuintileLabelShifted(quintile) == "quintile_" \o DecStr[quintile + 2]

(* line 381 *)
QuintileLabel(quintile) == "quintile_" \o DecStr[quintile + 1]

(* lines 372-391 *)
QuintileRecord(quintile, length, items, den) ==
    LET dominant_emotion == MaxItem(items)
        quintile_size == [num |-> length, den |-> NumQuintiles]
        top == TopItems(items)
    IN [time_range |-> <<Format2(quintile * quintile_size.num, quintile_size.den),
                         Format2((quintile + 1) * quintile_size.num, quintile_size.den)>>,
        dominant_emotion |-> dominant_emotion.name,
        emotion_score |-> [num |-> dominant_emotion.num, den |-> den],
        top_emotions |-> [k \in 1..Len(top) |->
                            [name |-> top[k].name,
                             score |-> [num |-> top[k].num, den |-> den]]]]

SpeakersOf(df) == {df.rows[r].speaker_id : r \in 1..Len(df.rows)}

(* the weighted_emotions map of one (speaker, quintile) group *)
GroupMap(df, speaker, quintile) ==
    LET quintile_data == QuintileData(df, speaker, quintile)
    IN WeightedEmotions(quintile_data, TotalDuration(df, speaker, quintile), <<>>)

(* the quintiles of one speaker when a group of total duration 0 is left out *)
SpeakerQuintilesTimed(df, speaker, length) ==
    LET emitted == {q \in 0..(NumQuintiles - 1) :
                       /\ QuintileData(df, speaker, q) # <<>>
                       /\ TotalDuration(df, speaker, q) > 0
                       /\ GroupMap(df, speaker, q) # <<>>}
    IN [label \in {QuintileLabel(q) : q \in emitted} |->
          LET q == CHOOSE x \in emitted : QuintileLabel(x) = label
          IN QuintileRecord(q, length, GroupMap(df, speaker, q),
                 Denominator(TotalDuration(df, speaker, q)))]

(* lines 329-394: the quintiles of one speaker *)
SpeakerQuintiles(df, speaker, length) ==
    LET emitted == {q \in 0..(NumQuintiles - 1) :
                       /\ QuintileData(df, speaker, q) # <<>>
                       /\ GroupMap(df, speaker, q) # <<>>}
    IN [label \in {QuintileLabel(q) : q \in emitted} |->
          LET q == CHOOSE x \in emitted : QuintileLabel(x) = label
          IN QuintileRecord(q, length, GroupMap(df, speaker, q),
                 Denominator(TotalDuration(df, speaker, q)))]

(* lines 313-396 *)
analyze_quintiles(df, length) ==
    [conversation_length_seconds |-> length,
     speakers |-> [speaker \in SpeakersOf(df) |-> SpeakerQuintiles(df, speaker, length)]]

(* the weights and the weighted_emotions maps that _analyze_quintiles builds, *)
(* one per (speaker, quintile) group that has rows                            *)
Groups(df) ==
    {g \in SpeakersOf(df) \X (0..(NumQuintiles - 1)) : QuintileData(df, g[1], g[2]) # <<>>}

GroupWeights(df) ==
    [g \in Groups(df) |->
        LET quintile_data == QuintileData(df, g[1], g[2])
        IN [r \in 1..Len(quintile_data) |->
              Weight(Duration(quintile_data[r]), TotalDuration(df, g[1], g[2]))]]

GroupMaps(df) ==
    [g \in Groups(df) |->
        [den |-> Denominator(TotalDuration(df, g[1], g[2])),
         items |-> GroupMap(df, g[1], g[2])]]

(* the table after _analyze_quintiles had the label of lines 361-362 been *)
(* written back into the segment's slot                                  *)
RelabelledInPlace(df) ==
    [columns |-> df.columns,
     rows |-> [r \in 1..Len(df.rows) |->
                 [df.rows[r] EXCEPT !.slots =
                     [i \in 1..Len(df.rows[r].slots) |->
                         [name |-> IF IsDigit(df.rows[r].slots[i].name)
                                   THEN "Emotion_" \o df.rows[r].slots[i].name
                                   ELSE df.rows[r].slots[i].name,
                          score |-> df.rows[r].slots[i].score]]]]]

(* the table passed to _create_streamlined_data and _analyze_quintiles as   *)
(* they leave it: line 412 works on a copy of five columns, lines 323 and   *)
(* 331 filter into new frames (the duration column of line 338 goes to the  *)
(* filtered frame) and lines 361-362 rebind a local name                    *)
AfterAnalysis(df) == df

----------------------------------------------------------------------------
(* The processor *)

NoFrame == [type |-> "none"]

(* what a call hands to its caller: the returned table and the report of *)
(* get_quintile_analysis                                                  *)
Outcome(returned, report) == [table |-> returned, report |-> report]

(* __init__, lines 25-49: the fields after construction; the predictions *)
(* file either decodes to a payload or leaves predictions at None        *)
Init ==
    /\ predictions \in Payloads
    /\ loaded = predictions
    /\ hashseed \in 0..MaxSeed
    /\ argsort = <<>>
    /\ previous = NotCalled
    /\ processed_data = None
    /\ top_sentiments = <<>>
    /\ quintile_analysis = EmptyDict
    /\ conversation_length = 0
    /\ length_dtype = "int"
    /\ saved = NotCalled
    /\ result = NotCalled
    /\ frame = NoFrame
    /\ processing_jobs = EmptyDict
    /\ background_tasks = EmptyDict
    /\ job_mappings = EmptyDict
    /\ outcomes = EmptyDict

(* line 107: not self.predictions *)
Falsy(p) == p = None \/ p.value = <<>>

(* process_sentiment_data, lines 99-272 *)
ProcessSentimentData ==
    /\ UNCHANGED api_vars
    /\ previous' = IF result = NotCalled THEN previous
                   ELSE Outcome(result, quintile_analysis)
    /\ saved' = NotCalled
    /\ IF Falsy(predictions)
       THEN /\ result' = None
            /\ frame' = NoFrame
            /\ UNCHANGED <<predictions, loaded, hashseed, argsort, processed_data, top_sentiments,
                           quintile_analysis, conversation_length, length_dtype>>
       ELSE IF Raises(predictions)
       THEN /\ result' = Caught(AttributeError)
            /\ frame' = NoFrame
            /\ UNCHANGED <<predictions, loaded, hashseed, argsort, processed_data, top_sentiments,
                           quintile_analysis, conversation_length, length_dtype>>
       ELSE LET data == ExtractSegments(predictions)
            IN IF data = <<>>
               THEN /\ result' = None
                    /\ frame' = NoFrame
                    /\ UNCHANGED <<predictions, loaded, hashseed, argsort, processed_data,
                                   top_sentiments, quintile_analysis, conversation_length, length_dtype>>
               ELSE \E p \in ArgSorts(DataFrame(data)) :
                       LET sorted == Take(DataFrame(data), p)
                           length == MaxEndTime(sorted)
                           df == WithQuintile(sorted, LengthSeen(conversation_length, length))
                           top == TopSentimentsOf(df, hashseed)
                           streamlined_df == create_streamlined_data(df, top)
                       IN /\ SortsAs(argsort, p)
                          /\ argsort' = p
                          /\ conversation_length' = length
                          /\ length_dtype' = MaxEndTimeType(sorted)
                          /\ top_sentiments' = top
                          /\ quintile_analysis' = analyze_quintiles(df, length)
                          /\ frame' = [streamlined_df |-> streamlined_df,
                                       sentiment_counts |-> SentimentCounts(df, hashseed),
                                       weights |-> GroupWeights(df),
                                       weighted_emotions |-> GroupMaps(df)]
                          /\ processed_data' = AfterAnalysis(df)
                          /\ result' = AfterAnalysis(df)
                          /\ UNCHANGED <<predictions, loaded, hashseed>>

(* a further SentimentProcessor constructed on the same predictions file, *)
(* lines 25-49, in this interpreter or in a new one of the same build     *)
NewInstance ==
    /\ UNCHANGED api_vars
    /\ previous' = IF result = NotCalled THEN previous
                   ELSE Outcome(result, quintile_analysis)
    /\ processed_data' = None
    /\ top_sentiments' = <<>>
    /\ quintile_analysis' = EmptyDict
    /\ conversation_length' = 0
    /\ length_dtype' = "int"
    /\ saved' = NotCalled
    /\ result' = NotCalled
    /\ frame' = NoFrame
    /\ hashseed' \in 0..MaxSeed
    /\ UNCHANGED <<predictions, loaded, argsort>>

(* json.dump, line 519: the encoder takes str, int, float, bool, None, *)
(* dict and list; numpy.float64 is a float, numpy.int64 is not an int  *)
Serializable(dtype) == dtype \in {"int", "float", "float64"}

(* the file after json.dump raised part-way through the report *)
Truncated == [type |-> "truncated"]

(* save_quintile_analysis, lines 505-528 *)
SaveQuintileAnalysis ==
    /\ UNCHANGED api_vars
    /\ saved' = IF quintile_analysis = EmptyDict
                THEN [returned |-> FALSE, written |-> None]
                ELSE IF Serializable(length_dtype)
                THEN [returned |-> TRUE, written |-> quintile_analysis]
                ELSE [returned |-> FALSE, written |-> Truncated]
    /\ UNCHANGED <<predictions, loaded, hashseed, argsort, processed_data, top_sentiments,
                   quintile_analysis, conversation_length, length_dtype, result, frame,
                   previous>>

Next == ProcessSentimentData \/ NewInstance \/ SaveQuintileAnalysis

Spec == Init /\ [][Next]_vars

----------------------------------------------------------------------------
(* The API (api.py) and the orchestrator's process_file behind it *)

JobIds == 1..MaxJobs

(* api.py, lines 104-105 *)
AudioExtensions == {".wav"}

TranscriptExtensions == {".txt"}

Extensions == AudioExtensions \cup TranscriptExtensions \cup {".pdf"}

(* a dict of the orchestrator, by its keys *)
Dict(keys) == [type |-> "dict", keys |-> keys]

(* the payloads Hume returns for a job: one with a span, one without *)
SpanPayload == Wrapped(<<FlatSpan("prosody", "A", 0, MaxTime, FixedList)>>)

JobPayloads == {SpanPayload, Wrapped(<<>>)}

(* the first step of process_file that fails, "none" when all succeed; the   *)
(* call of process_sentiment_data is not among them, it fails by the payload *)
Failures == {"exception", "submit", "wait", "predictions", "save_predictions",
             "save_processed_data", "none"}

(* what the services do during one background job: Claude is given the *)
(* ElevenLabs transcript, the payload is read when it has been saved    *)
Outcomes ==
    {o \in [elevenlabs : BOOLEAN, claude : BOOLEAN, fails : Failures,
            payload : JobPayloads] :
        /\ o.claude => o.elevenlabs
        /\ o.fails \notin {"save_processed_data", "none"} => o.payload = SpanPayload}

(* sentiment_processor.py, lines 107-109, 209-213 and 269-272: the call returns None *)
ReturnsNone(p) == Falsy(p) \/ Raises(p) \/ ExtractSegments(p) = <<>>

(* orchestrator.py, lines 495-524 *)
ClaudeKeys ==
    {"claude_response_file", "claude_structured_json_file", "claude_summary_file",
     "claude_sentiment_file", "claude_share_of_voice_chart", "claude_sentiment_chart"}

(* orchestrator.py, lines 259-481, called with force_reprocess=True and the *)
(* other flags at their defaults, for a file with no job mapping yet        *)
process_file(o) ==
    LET elevenlabs == IF o.elevenlabs
                      THEN {"elevenlabs_transcript", "elevenlabs_transcript_path"}
                      ELSE {}
        claude == IF o.elevenlabs /\ o.claude THEN ClaudeKeys ELSE {}
    IN IF o.fails = "exception" THEN Dict({})
       ELSE IF o.fails = "submit" THEN Dict(elevenlabs)
       ELSE IF o.fails \in {"wait", "predictions", "save_predictions"}
       THEN Dict(elevenlabs \cup {"hume_job_id"})
       ELSE IF ReturnsNone(o.payload) \/ o.fails = "save_processed_data"
       THEN Dict(elevenlabs \cup {"hume_job_id", "hume_predictions_file"})
       ELSE Dict(elevenlabs \cup claude
                 \cup {"hume_job_id", "hume_predictions_file", "hume_predictions",
                        "processed_data_file", "processed_data", "quintile_analysis",
                        "sentiment_evolution_plot", "visualization_file"})

(* orchestrator.py, lines 382-392: the mapping is saved once the job is submitted *)
Submitted(o) == o.fails \notin {"exception", "submit"}

(* orchestrator.py, lines 98-257, for a transcript with no predictions file *)
(* of its name                                                             *)
process_transcript_with_claude(o) ==
    IF o.fails = "exception" THEN None
    ELSE IF o.claude
    THEN Dict({"claude_response_file", "claude_structured_json_file",
               "claude_summary_file", "claude_sentiment_file", "claude_data",
               "structured_data"})
    ELSE Dict({})

(* api.py, line 248: if results *)
Truthy(results) == results # None /\ results.keys # {}

ApiInit ==
    /\ predictions = None
    /\ loaded = None
    /\ hashseed = 0
    /\ argsort = <<>>
    /\ previous = NotCalled
    /\ processed_data = None
    /\ top_sentiments = <<>>
    /\ quintile_analysis = EmptyDict
    /\ conversation_length = 0
    /\ length_dtype = "int"
    /\ saved = NotCalled
    /\ result = NotCalled
    /\ frame = NoFrame
    /\ processing_jobs = EmptyDict
    /\ background_tasks = EmptyDict
    /\ job_mappings = EmptyDict
    /\ outcomes = EmptyDict

(* api.py, lines 92-110 and 136-151: the job is recorded and its task scheduled *)
Schedule(job_id, extension, is_audio, is_transcript) ==
    /\ processing_jobs' = processing_jobs @@
          (job_id :> [status |-> "processing", file_path |-> <<job_id, extension>>])
    /\ background_tasks' = background_tasks @@
          (job_id :> [is_audio |-> is_audio, is_transcript |-> is_transcript])
    /\ UNCHANGED <<job_mappings, outcomes>>
    /\ UNCHANGED processor_vars

(* POST /process, api.py lines 79-116 *)
ApiProcessFile ==
    \E job_id \in JobIds \ DOMAIN processing_jobs, extension \in Extensions :
        Schedule(job_id, extension, extension \in AudioExtensions,
                 extension \in TranscriptExtensions)

(* POST /process-text, api.py lines 123-157 *)
ApiProcessText ==
    \E job_id \in JobIds \ DOMAIN processing_jobs :
        Schedule(job_id, ".txt", FALSE, TRUE)

(* api.py, lines 211-262 *)
ProcessFileBackground ==
    \E job_id \in DOMAIN background_tasks, o \in Outcomes :
        LET task == background_tasks[job_id]
            results == IF task.is_audio THEN process_file(o)
                       ELSE process_transcript_with_claude(o)
        IN /\ background_tasks' =
                 [j \in DOMAIN background_tasks \ {job_id} |-> background_tasks[j]]
           /\ outcomes' = outcomes @@ (job_id :> [task |-> task, services |-> o])
           /\ job_mappings' = IF task.is_audio /\ Submitted(o)
                              THEN job_mappings @@ (job_id :> <<"hume", job_id>>)
                              ELSE job_mappings
           /\ processing_jobs' =
                 [processing_jobs EXCEPT ![job_id] =
                     IF ~task.is_audio /\ ~task.is_transcript
                     THEN [status |-> "failed", error |-> "Unsupported file type"]
                     ELSE IF Truthy(results)
                     THEN [status |-> "completed", results |-> results]
                     ELSE [status |-> "failed", error |-> "Processing failed"]]
           /\ UNCHANGED processor_vars

ApiNext == ApiProcessText \/ ApiProcessFile \/ ProcessFileBackground

ApiSpec == ApiInit /\ [][ApiNext]_vars

----------------------------------------------------------------------------
(* Properties *)

Succeeded == result # NotCalled /\ result # None

Rows == processed_data.rows

RowsOf(speaker, quintile) ==
    {r \in 1..Len(Rows) : Rows[r].speaker_id = speaker /\ Rows[r].quintile = quintile}

InOrder(row) == 0 <= row.start_time /\ row.start_time <= row.end_time

AtEnd(row) == row.start_time + row.end_time = 2 * conversation_length

(* C1, as stated: every segment with 0 <= start_time <= end_time has its    *)
(* quintile in 0..4, and a segment whose midpoint equals the conversation   *)
(* length has quintile 4.                                                    *)
C1_AsStated ==
    Succeeded =>
        \A r \in 1..Len(Rows) :
            /\ InOrder(Rows[r]) => Rows[r].quintile \in 0..4
            /\ AtEnd(Rows[r]) => Rows[r].quintile = 4

(* C1, amended: every segment with 0 <= start_time <= end_time has its      *)
(* quintile in 0..4, and a segment whose midpoint equals a conversation     *)
(* length greater than zero has quintile 4, never 5 (when the conversation  *)
(* length is zero the segment is given quintile 0).                          *)
C1_QuintileInRange ==
    Succeeded =>
        \A r \in 1..Len(Rows) :
            /\ InOrder(Rows[r]) => Rows[r].quintile \in 0..4
            /\ (AtEnd(Rows[r]) /\ conversation_length > 0) => Rows[r].quintile = 4
            /\ conversation_length = 0 => Rows[r].quintile = 0

C1_Witness ==
    /\ Succeeded
    /\ conversation_length > 0
    /\ \E r \in 1..Len(Rows) : InOrder(Rows[r]) /\ AtEnd(Rows[r]) /\ Rows[r].quintile = 4

(* the reference bucket of a midpoint (start + end) / 2 *)
ReferenceBucket(length, start_time, end_time) ==
    IF length = 0 THEN 0
    ELSE Min(4, ((start_time + end_time) * 5) \div (2 * length))

InTable(row) == InOrder(row) /\ row.end_time <= conversation_length

(* C2: for every segment with 0 <= start <= end <= L the quintile is 0 when *)
(* L = 0 and min(4, floor(midpoint / (L/5))) otherwise, and two segments of *)
(* equal midpoint have the same quintile whatever their start and end.      *)
C2_ReferenceBucket ==
    Succeeded =>
        /\ \A r \in 1..Len(Rows) :
              InTable(Rows[r]) =>
                 Rows[r].quintile = ReferenceBucket(conversation_length,
                                        Rows[r].start_time, Rows[r].end_time)
        /\ \A r1, r2 \in 1..Len(Rows) :
              (/\ InTable(Rows[r1]) /\ InTable(Rows[r2])
               /\ Rows[r1].start_time + Rows[r1].end_time
                     = Rows[r2].start_time + Rows[r2].end_time)
              => Rows[r1].quintile = Rows[r2].quintile

C2_Witness ==
    /\ Succeeded
    /\ conversation_length > 0
    /\ \E r1, r2 \in 1..Len(Rows) :
          /\ InTable(Rows[r1]) /\ InTable(Rows[r2])
          /\ Rows[r1].start_time # Rows[r2].start_time
          /\ Rows[r1].start_time + Rows[r1].end_time
                = Rows[r2].start_time + Rows[r2].end_time
          /\ Rows[r1].quintile = Rows[r2].quintile
          /\ Rows[r1].quintile \in 1..3

(* the total duration of a group, from the rows of the table *)
RECURSIVE SumOver(_, _)
SumOver(S, f) ==
    IF S = {} THEN 0
    ELSE LET x == CHOOSE y \in S : TRUE IN f[x] + SumOver(S \ {x}, f)

GroupTotal(g) ==
    SumOver(RowsOf(g[1], g[2]), [r \in 1..Len(Rows) |-> Rows[r].end_time - Rows[r].start_time])

(* the k-th row of a group, as an index of the table *)
GroupRow(g, k) ==
    CHOOSE r \in RowsOf(g[1], g[2]) : Cardinality({x \in RowsOf(g[1], g[2]) : x < r}) = k - 1

(* C3: in every (speaker, bucket) group with total_duration > 0 the weights *)
(* of the group's segments sum to 1, each weight being the segment's        *)
(* duration over the total duration of its own group.                       *)
C3_WeightsSumToOne ==
    Succeeded =>
        \A g \in DOMAIN frame.weights :
            LET w == frame.weights[g]
                total == GroupTotal(g)
            IN total > 0 =>
                  /\ Len(w) = Cardinality(RowsOf(g[1], g[2]))
                  /\ \A k \in 1..Len(w) :
                        /\ w[k].den > 0
                        /\ w[k].num * total
                             = (Rows[GroupRow(g, k)].end_time
                                  - Rows[GroupRow(g, k)].start_time) * w[k].den
                  /\ \E d \in {w[k].den : k \in 1..Len(w)} :
                        /\ \A k \in 1..Len(w) : w[k].den = d
                        /\ SumSeq([k \in 1..Len(w) |-> w[k].num]) = d

C3_Witness ==
    /\ Succeeded
    /\ \E g \in DOMAIN frame.weights :
          /\ GroupTotal(g) > 0
          /\ Len(frame.weights[g]) >= 2
          /\ \A k \in 1..Len(frame.weights[g]) : frame.weights[g][k].num > 0
          /\ frame.weights[g][1].num # frame.weights[g][2].num

BucketLabels == <<"quintile_1", "quintile_2", "quintile_3", "quintile_4", "quintile_5">>

(* the names carried by the slots of the rows of a group *)
CarriedNames(g) ==
    UNION {{Rows[r].slots[i].name : i \in 1..Len(Rows[r].slots)} : r \in RowsOf(g[1], g[2])}

(* sum over the group's segments and over the slots holding the name of *)
(* score * weight(segment), as a numerator over ReferenceDen            *)
ReferenceNum(g, name) ==
    SumOver(RowsOf(g[1], g[2]),
        [r \in 1..Len(Rows) |->
            SumOver({i \in 1..Len(Rows[r].slots) : Rows[r].slots[i].name = name},
                    [i \in 1..Len(Rows[r].slots) |-> Rows[r].slots[i].score])
            * (IF GroupTotal(g) > 0 THEN Rows[r].end_time - Rows[r].start_time ELSE 0)])

ReferenceDen(g) == IF GroupTotal(g) > 0 THEN GroupTotal(g) ELSE 1

(* C4: for every (speaker, bucket) group and every name carried by a slot  *)
(* of a segment of the group, the weighted score kept for that name is the *)
(* sum over the group's segments and the slots holding the name of         *)
(* score * weight(segment), and no other name gets a score.                *)
C4_WeightedScores ==
    Succeeded =>
        \A g \in DOMAIN frame.weighted_emotions :
            LET m == frame.weighted_emotions[g]
            IN /\ \A name \in CarriedNames(g) :
                     \E k \in 1..Len(m.items) :
                        /\ m.items[k].name = name
                        /\ m.items[k].num * ReferenceDen(g) = ReferenceNum(g, name) * m.den
               /\ \A k \in 1..Len(m.items) : m.items[k].name \in CarriedNames(g)

(* the bucket of a key of a speaker's map *)
BucketOf(label) == CHOOSE q \in 0..4 : BucketLabels[q + 1] = label

NamesOf(entries) == {entries[k].name : k \in 1..Len(entries)}

(* C5: in every record, dominant_emotion is a name of maximal weighted     *)
(* score in the group's map and emotion_score is that maximum;             *)
(* top_emotions holds min(5, size of the map) pairs of the map, sorted by  *)
(* non-increasing score, and no name left out has a larger score than a    *)
(* name in it.                                                              *)
C5_DominantAndTop ==
    Succeeded =>
        \A speaker \in DOMAIN quintile_analysis.speakers :
            \A label \in DOMAIN quintile_analysis.speakers[speaker] :
                LET rec == quintile_analysis.speakers[speaker][label]
                    m == frame.weighted_emotions[<<speaker, BucketOf(label)>>]
                    top == rec.top_emotions
                IN /\ m.den > 0
                   /\ rec.emotion_score.den = m.den
                   /\ \E k \in 1..Len(m.items) :
                         /\ m.items[k].name = rec.dominant_emotion
                         /\ m.items[k].num = rec.emotion_score.num
                         /\ \A j \in 1..Len(m.items) : m.items[j].num <= m.items[k].num
                   /\ Len(top) = Min(5, Len(m.items))
                   /\ Cardinality(NamesOf(top)) = Len(top)
                   /\ \A k \in 1..Len(top) :
                         /\ top[k].score.den = m.den
                         /\ \E j \in 1..Len(m.items) :
                               /\ m.items[j].name = top[k].name
                               /\ m.items[j].num = top[k].score.num
                   /\ \A k \in 1..(Len(top) - 1) : top[k].score.num >= top[k + 1].score.num
                   /\ \A j \in 1..Len(m.items) :
                         m.items[j].name \notin NamesOf(top) =>
                            \A k \in 1..Len(top) : m.items[j].num <= top[k].score.num

C5_Witness ==
    /\ Succeeded
    /\ \E speaker \in DOMAIN quintile_analysis.speakers :
          \E label \in DOMAIN quintile_analysis.speakers[speaker] :
             LET rec == quintile_analysis.speakers[speaker][label]
                 m == frame.weighted_emotions[<<speaker, BucketOf(label)>>]
             IN /\ Len(m.items) > 5
                /\ Len(rec.top_emotions) = 5
                /\ rec.top_emotions[1].score.num > rec.top_emotions[5].score.num
                /\ rec.dominant_emotion = rec.top_emotions[1].name

(* the groups of the table whose segments all have zero duration *)
ZeroDurationGroups ==
    {g \in {<<Rows[r].speaker_id, Rows[r].quintile>> : r \in 1..Len(Rows)} :
        /\ g[2] \in 0..4
        /\ \A r \in RowsOf(g[1], g[2]) : Rows[r].start_time = Rows[r].end_time}

(* C6: when every segment of a (speaker, bucket) group has zero duration,  *)
(* the group's weighted-emotion map is empty and the report holds no       *)
(* record for that bucket.                                                  *)
C6_ZeroDurationOmitted ==
    Succeeded =>
        \A g \in ZeroDurationGroups :
            /\ frame.weighted_emotions[g].items = <<>>
            /\ BucketLabels[g[2] + 1] \notin DOMAIN quintile_analysis.speakers[g[1]]

(* C7: for every speaker and bucket b in 0..4, if no segment of the speaker *)
(* has quintile b, the speaker's map has no key quintile_{b+1}.             *)
C7_EmptyBucketAbsent ==
    Succeeded =>
        \A speaker \in DOMAIN quintile_analysis.speakers :
            \A b \in 0..4 :
                RowsOf(speaker, b) = {} =>
                    BucketLabels[b + 1] \notin DOMAIN quintile_analysis.speakers[speaker]

C7_Witness ==
    /\ Succeeded
    /\ \E speaker, other \in DOMAIN quintile_analysis.speakers :
          \E b, c \in 0..4 :
             /\ speaker # other
             /\ RowsOf(speaker, b) = {}
             /\ RowsOf(other, b) # {}
             /\ BucketLabels[b + 1] \in DOMAIN quintile_analysis.speakers[other]
             /\ BucketLabels[b + 1] \notin DOMAIN quintile_analysis.speakers[speaker]
             /\ BucketLabels[c + 1] \in DOMAIN quintile_analysis.speakers[speaker]

ColumnsOf(table) == {table.columns[i] : i \in 1..Len(table.columns)}

VocabularyColumns ==
    {"speaker_id", "start_time", "end_time", "text", "quintile"}
    \cup {top_sentiments[i] : i \in 1..Len(top_sentiments)}

(* C8: after a successful call the table returned and the table left in    *)
(* processed_data (the one save_processed_data writes) are the table built *)
(* by _create_streamlined_data: one row per segment with the columns       *)
(* speaker_id, start_time, end_time, text, quintile and one column per     *)
(* vocabulary name.                                                         *)
C8_EmittedTableIsStreamlined ==
    Succeeded =>
        /\ result = frame.streamlined_df
        /\ processed_data = frame.streamlined_df
        /\ ColumnsOf(result) = VocabularyColumns
        /\ ColumnsOf(processed_data) = VocabularyColumns

Occurrences(name) ==
    Cardinality({p \in UNION {{<<r, i>> : i \in 1..Len(Rows[r].slots)} : r \in 1..Len(Rows)} :
                    Rows[p[1]].slots[p[2]].name = name})

(* C10: after a successful call top_sentiments has at most 15 names, all   *)
(* distinct, in the order of non-increasing occurrence count.              *)
C10_VocabularySorted ==
    Succeeded =>
        /\ Len(top_sentiments) <= 15
        /\ Cardinality({top_sentiments[i] : i \in 1..Len(top_sentiments)}) = Len(top_sentiments)
        /\ \A i \in 1..(Len(top_sentiments) - 1) :
              Occurrences(top_sentiments[i]) >= Occurrences(top_sentiments[i + 1])

C10_Witness ==
    /\ Succeeded
    /\ Len(top_sentiments) = 15
    /\ Cardinality(UNION {CarriedNames(<<Rows[r].speaker_id, Rows[r].quintile>>) :
                             r \in 1..Len(Rows)}) > 15
    /\ Occurrences(top_sentiments[1]) > Occurrences(top_sentiments[15])

TableNames == {n \in {NameUniverse[i] : i \in 1..Len(NameUniverse)} : Occurrences(n) > 0}

Vocabulary == {top_sentiments[i] : i \in 1..Len(top_sentiments)}

(* C11: the count of a name is the number of (segment, slot) pairs of the   *)
(* table whose slot holds it, a name in two slots of one segment counting   *)
(* twice; the vocabulary is made of min(15, number of distinct names) names *)
(* of the table, and no name left out has a larger count than a name kept.  *)
C11_CountsAndSelection ==
    Succeeded =>
        LET counts == frame.sentiment_counts
        IN /\ {counts[i].name : i \in 1..Len(counts)} = TableNames
           /\ Len(counts) = Cardinality(TableNames)
           /\ \A i \in 1..Len(counts) : counts[i].count = Occurrences(counts[i].name)
           /\ Vocabulary \subseteq TableNames
           /\ Len(top_sentiments) = Min(15, Cardinality(TableNames))
           /\ \A out \in TableNames \ Vocabulary :
                 \A kept \in Vocabulary : Occurrences(out) <= Occurrences(kept)

C11_Witness ==
    /\ Succeeded
    /\ TableNames \ Vocabulary # {}
    /\ \E i \in 1..Len(frame.sentiment_counts) :
          LET c == frame.sentiment_counts[i]
          IN /\ c.name \in Vocabulary
             /\ \E r \in 1..Len(Rows) :
                   Cardinality({k \in 1..Len(Rows[r].slots) : Rows[r].slots[k].name = c.name}) = 2
             /\ c.count > Cardinality({r \in 1..Len(Rows) :
                              \E k \in 1..Len(Rows[r].slots) : Rows[r].slots[k].name = c.name})

(* C12: the vocabulary is a function of the table alone: whatever the order  *)
(* in which the intermediate set of names is iterated, the same table gives *)
(* the same list, in the order of equal-count names and in the names kept  *)
(* at the boundary of 15.                                                    *)
C12_VocabularyDeterministic ==
    Succeeded =>
        \A seed \in 0..MaxSeed : top_sentiments = TopSentimentsOf(processed_data, seed)

(* C13: a call of process_sentiment_data that follows an earlier call on   *)
(* the same payload, on the same SentimentProcessor or on a fresh one,      *)
(* returns the same table and leaves the same quintile report as the       *)
(* earlier call did.                                                        *)
C13_Idempotent ==
    (previous # NotCalled /\ result # NotCalled) =>
        previous = Outcome(result, quintile_analysis)

C13_Witness ==
    /\ Succeeded
    /\ previous # NotCalled
    /\ previous.table = result
    /\ Len(Rows) >= 2
    /\ \E r \in 1..Len(Rows) : Rows[r].quintile > 0
    /\ \E speaker \in DOMAIN quintile_analysis.speakers :
          /\ DOMAIN quintile_analysis.speakers[speaker] # {}
          /\ previous.report.speakers[speaker] = quintile_analysis.speakers[speaker]

(* the spans of the payload, in the order the engine meets them *)
Spans == IF predictions.type = "list" THEN Visits(predictions.value) ELSE <<>>

Key(d) == <<d.speaker_id, d.start_time, d.end_time>>

RowsWithKey(k) == {r \in 1..Len(Rows) : Key(Rows[r]) = k}

(* C14: when a span of the prosody channel and a span of the language      *)
(* channel have the same (speaker_id, start_time, end_time), the table has  *)
(* exactly one row of that key and the row carries the slots of the        *)
(* prosody span; every span's key has a row in the table, so spans of      *)
(* different keys are both kept.                                            *)
C14_FirstChannelWins ==
    Succeeded =>
        /\ \A i, j \in 1..Len(Spans) :
              (/\ Spans[i].channel = "prosody"
               /\ Spans[j].channel = "language"
               /\ Key(Spans[i].segment_data) = Key(Spans[j].segment_data))
              => /\ Cardinality(RowsWithKey(Key(Spans[i].segment_data))) = 1
                 /\ \A r \in RowsWithKey(Key(Spans[i].segment_data)) :
                       Rows[r].slots = Spans[i].segment_data.slots
        /\ \A i \in 1..Len(Spans) : RowsWithKey(Key(Spans[i].segment_data)) # {}

(* C15: the table is sorted by non-decreasing start_time, and rows of      *)
(* equal start_time are in the order in which their spans were discovered  *)
(* (argsort[i] is the place of row i in the discovery order).              *)
C15_StableSort ==
    Succeeded =>
        \A i, j \in 1..Len(Rows) :
            i < j =>
                /\ Rows[i].start_time <= Rows[j].start_time
                /\ Rows[i].start_time = Rows[j].start_time => argsort[i] < argsort[j]

(* the emotions or sentiment list of a span of the payload *)
RawList(v) ==
    IF v.channel = "prosody" THEN Get(v.segment, "emotions", <<>>)
    ELSE Get(v.segment, "sentiment", <<>>)

CountOf(e, seq) == Cardinality({i \in 1..Len(seq) : seq[i] = e})

(* the slots hold the min(15, n) highest-scored entries of the list, in *)
(* non-increasing order of score                                        *)
TopOfList(slots, list) ==
    /\ Len(slots) = Min(15, Len(list))
    /\ \A i \in 1..(Len(slots) - 1) : slots[i].score >= slots[i + 1].score
    /\ \A i \in 1..Len(slots) : CountOf(slots[i], slots) <= CountOf(slots[i], list)
    /\ \A j \in 1..Len(list) :
          CountOf(list[j], slots) < CountOf(list[j], list) =>
             \A i \in 1..Len(slots) : list[j].score <= slots[i].score

(* C16: every row of the table comes from a span of the payload whose      *)
(* emotions (prosody) or sentiment (language) list has its min(15, n)      *)
(* highest-scored entries in the row's slots 1..k, in non-increasing order *)
(* of score; entries ranked beyond 15 are not stored.                      *)
C16_SlotsAreTopOfList ==
    Succeeded =>
        LET spans == Spans
        IN \A r \in 1..Len(Rows) :
              /\ Len(Rows[r].slots) <= 15
              /\ \E v \in 1..Len(spans) :
                    /\ Key(spans[v].segment_data) = Key(Rows[r])
                    /\ TopOfList(Rows[r].slots, RawList(spans[v]))

C16_Witness ==
    /\ Succeeded
    /\ \E r \in 1..Len(Rows) :
          \E v \in 1..Len(Spans) :
             /\ Key(Spans[v].segment_data) = Key(Rows[r])
             /\ Len(RawList(Spans[v])) > 15
             /\ Len(Rows[r].slots) = 15
             /\ TopOfList(Rows[r].slots, RawList(Spans[v]))
             /\ Rows[r].slots[1].score > Rows[r].slots[15].score
             /\ Rows[r].slots[1] # RawList(Spans[v])[1]

(* C17: no purely numeric name is left in a segment or in an output of   *)
(* the engine: not in a slot of the table, not in the vocabulary, not as  *)
(* a column of the flattened table, and not as dominant_emotion or in     *)
(* top_emotions of a record of the report.                                *)
C17_NoNumericNames ==
    Succeeded =>
        /\ \A r \in 1..Len(Rows) :
              \A i \in 1..Len(Rows[r].slots) : Rows[r].slots[i].name \notin DigitStrings
        /\ Vocabulary \cap DigitStrings = {}
        /\ ColumnsOf(frame.streamlined_df) \cap DigitStrings = {}
        /\ \A speaker \in DOMAIN quintile_analysis.speakers :
              \A label \in DOMAIN quintile_analysis.speakers[speaker] :
                 LET rec == quintile_analysis.speakers[speaker][label]
                 IN /\ rec.dominant_emotion \notin DigitStrings
                    /\ NamesOf(rec.top_emotions) \cap DigitStrings = {}

(* the groups of a single-mapping payload wrapped in a sequence of one *)
(* {source, results} object                                             *)
WrappingOf(p) ==
    [type |-> "list",
     value |-> <<[source |-> "file", results |-> [predictions |-> <<p.value>>]]>>]

(* C18: a payload that is a single mapping holding the prediction groups   *)
(* is normalized like the same groups wrapped in a sequence of {source,    *)
(* results} objects: when it holds recognizable spans the call does not    *)
(* report failure and the table is the table of the wrapped payload.       *)
C18_BothShapesNormalized ==
    (/\ result # NotCalled
     /\ predictions.type = "dict"
     /\ Visits(WrappingOf(predictions).value) # <<>>)
    => /\ Succeeded
       /\ LET table == DataFrame(ExtractSegments(WrappingOf(predictions)))
          IN \E p \in ArgSorts(table) :
                processed_data = WithQuintile(Take(table, p), MaxEndTime(table))

(* a span whose time field is present and is not a mapping *)
Malformed(v) == "time" \in DOMAIN v.segment /\ "type" \in DOMAIN v.segment.time

(* C19: a malformed span does not abort the run: when the payload holds a  *)
(* malformed span next to well-formed ones, the call returns a table and   *)
(* the table holds a row for every well-formed span.                       *)
C19_MalformedSpanSkipped ==
    (/\ result # NotCalled
     /\ \E v \in 1..Len(Spans) : Malformed(Spans[v])
     /\ \E v \in 1..Len(Spans) : ~Malformed(Spans[v]))
    => /\ Succeeded
       /\ \A v \in 1..Len(Spans) :
             ~Malformed(Spans[v]) => RowsWithKey(Key(Spans[v].segment_data)) # {}

IsException(x) == "type" \in DOMAIN x /\ x.type = "exception"

Unassigned ==
    /\ conversation_length = 0
    /\ top_sentiments = <<>>
    /\ quintile_analysis = EmptyDict
    /\ processed_data = None

(* a payload that is not empty and in which the engine meets no span *)
NoSegments == predictions # None /\ predictions.value # <<>> /\ Spans = <<>>

(* C20: no exception reaches the caller of process_sentiment_data; when    *)
(* predictions is None, when the payload is empty and when a non-empty     *)
(* payload holds no recognizable span the call returns None, and in the    *)
(* last case conversation_length, top_sentiments, quintile_analysis and    *)
(* processed_data are left unassigned.                                      *)
C20_FailureIsNone ==
    result # NotCalled =>
        /\ ~IsException(result)
        /\ (predictions = None \/ predictions.value = <<>> \/ NoSegments) => result = None
        /\ NoSegments => Unassigned

C20_Witness ==
    /\ result = None
    /\ NoSegments
    /\ predictions.type = "list"
    /\ Unassigned

(* the table without the segments of the other speakers *)
OnlySpeaker(table, speaker) ==
    [columns |-> table.columns,
     rows |-> SelectSeq(table.rows, LAMBDA row : row.speaker_id = speaker)]

(* C21: the records of a speaker depend only on that speaker's segments    *)
(* and on the conversation length: the speaker's map in the report is the  *)
(* map the aggregator gives for the table from which every other speaker's *)
(* segments are taken away, under the same conversation length.            *)
C21_SpeakerIndependent ==
    Succeeded =>
        \A speaker \in DOMAIN quintile_analysis.speakers :
            quintile_analysis.speakers[speaker]
               = SpeakerQuintiles(OnlySpeaker(processed_data, speaker), speaker,
                                  conversation_length)

C21_Witness ==
    /\ Succeeded
    /\ \E speaker, other \in DOMAIN quintile_analysis.speakers :
          \E label \in DOMAIN quintile_analysis.speakers[speaker] :
             /\ speaker # other
             /\ label \in DOMAIN quintile_analysis.speakers[other]
             /\ quintile_analysis.speakers[speaker][label].emotion_score.den > 0
             /\ quintile_analysis.speakers[speaker][label].emotion_score.num > 0
             /\ \E r \in RowsOf(other, BucketOf(label)) :
                   Rows[r].end_time > Rows[r].start_time

(* C22: conversation_length_seconds is the maximum end_time of the table;  *)
(* every record of a speaker is stored under quintile_{b+1} for a bucket b *)
(* in 0..4 in which the speaker has segments, with a time_range from       *)
(* b*L/5 to (b+1)*L/5 (in hundredths of a second); the report holds        *)
(* conversation_length_seconds and speakers and nothing else.              *)
C22_ReportShape ==
    Succeeded =>
        LET L == MaxOf({Rows[r].end_time : r \in 1..Len(Rows)})
        IN /\ DOMAIN quintile_analysis = {"conversation_length_seconds", "speakers"}
           /\ quintile_analysis.conversation_length_seconds = L
           /\ \A speaker \in DOMAIN quintile_analysis.speakers :
                 /\ DOMAIN quintile_analysis.speakers[speaker]
                       \subseteq {BucketLabels[b + 1] : b \in 0..4}
                 /\ \A b \in 0..4 :
                       BucketLabels[b + 1] \in DOMAIN quintile_analysis.speakers[speaker] =>
                          LET rec == quintile_analysis.speakers[speaker][BucketLabels[b + 1]]
                          IN /\ RowsOf(speaker, b) # {}
                             /\ rec.time_range[1] * 5 = b * L * 100
                             /\ rec.time_range[2] * 5 = (b + 1) * L * 100

C22_Witness ==
    /\ Succeeded
    /\ quintile_analysis.conversation_length_seconds = MaxTime
    /\ \E speaker \in DOMAIN quintile_analysis.speakers :
          /\ "quintile_1" \in DOMAIN quintile_analysis.speakers[speaker]
          /\ "quintile_5" \in DOMAIN quintile_analysis.speakers[speaker]
          /\ quintile_analysis.speakers[speaker]["quintile_5"].time_range
                = <<80 * MaxTime, 100 * MaxTime>>

(* the table as built by lines 218-230, before the vocabulary, the *)
(* streamlined table and the analysis                              *)
TableBuilt ==
    LET sorted == Take(DataFrame(ExtractSegments(predictions)), argsort)
    IN WithQuintile(sorted, MaxEndTime(sorted))

C24_SaveAfterProcess ==
    saved # NotCalled =>
        /\ Succeeded =>
              /\ saved.returned
              /\ saved.written = quintile_analysis
              /\ DOMAIN quintile_analysis = {"conversation_length_seconds", "speakers"}
        /\ ~saved.returned => processed_data = None /\ saved.written = None

(* the fields a span's row must have: the span's own where it has them, *)
(* 0, "" and "unknown" where it lacks them                              *)
Expected(v) ==
    [speaker_id |-> IF "id" \in DOMAIN v.speaker_group THEN v.speaker_group.id
                    ELSE "unknown",
     start_time |-> IF "time" \in DOMAIN v.segment /\ "begin" \in DOMAIN v.segment.time
                    THEN v.segment.time.begin ELSE 0,
     end_time |-> IF "time" \in DOMAIN v.segment /\ "end" \in DOMAIN v.segment.time
                  THEN v.segment.time.end ELSE 0,
     text |-> IF "text" \in DOMAIN v.segment THEN v.segment.text ELSE ""]

Lacking(v) ==
    \/ "id" \notin DOMAIN v.speaker_group
    \/ "text" \notin DOMAIN v.segment
    \/ "time" \notin DOMAIN v.segment
    \/ "begin" \notin DOMAIN v.segment.time
    \/ "end" \notin DOMAIN v.segment.time

(* C25: a payload whose spans lack optional fields is not rejected: the     *)
(* call returns a table, and every span has a row with its speaker id, or   *)
(* "unknown" when the group has no id, its begin and end, or 0 where the    *)
(* time mapping or the bound is missing, and (unless a prosody span of the  *)
(* same key took its place) its text, or "" when it has none.               *)
C25_DefaultsForMissing ==
    LET spans == Spans
    IN (/\ result # NotCalled
        /\ spans # <<>>
        /\ \A v \in 1..Len(spans) : ~Malformed(spans[v]))
       => /\ Succeeded
          /\ \A v \in 1..Len(spans) :
                LET e == Expected(spans[v])
                IN \E r \in 1..Len(Rows) :
                      /\ Rows[r].speaker_id = e.speaker_id
                      /\ Rows[r].start_time = e.start_time
                      /\ Rows[r].end_time = e.end_time
                      /\ \/ Rows[r].text = e.text
                         \/ /\ spans[v].channel = "language"
                            /\ \E w \in 1..Len(spans) :
                                  /\ spans[w].channel = "prosody"
                                  /\ Key(Expected(spans[w])) = Key(e)

C25_Witness ==
    /\ Succeeded
    /\ \A v \in 1..Len(Spans) : Lacking(Spans[v])
    /\ \E r \in 1..Len(Rows) : Rows[r].speaker_id = "unknown"
    /\ \E r \in 1..Len(Rows) :
          Rows[r].start_time = 1 /\ Rows[r].end_time = 0 /\ Rows[r].speaker_id = "A"

(* C26: every row of the table returned by process_sentiment_data has *)
(* start_time >= 0 and end_time >= start_time.                         *)
C26_TimesOrdered ==
    Succeeded =>
        \A r \in 1..Len(Rows) :
            Rows[r].start_time >= 0 /\ Rows[r].end_time >= Rows[r].start_time

(* the records of the report, as <<speaker, label>> pairs *)
Records ==
    {g \in (DOMAIN quintile_analysis.speakers) \X {BucketLabels[b] : b \in 1..5} :
        g[2] \in DOMAIN quintile_analysis.speakers[g[1]]}

RecordOf(g) == quintile_analysis.speakers[g[1]][g[2]]

(* C28: in every record dominant_emotion and emotion_score are the name and *)
(* the score of the first entry of top_emotions, also when several names    *)
(* have the maximal weighted score.                                         *)
C28_DominantIsFirstOfTop ==
    Succeeded =>
        \A g \in Records :
            /\ Len(RecordOf(g).top_emotions) >= 1
            /\ RecordOf(g).dominant_emotion = RecordOf(g).top_emotions[1].name
            /\ RecordOf(g).emotion_score = RecordOf(g).top_emotions[1].score

C28_Witness ==
    /\ Succeeded
    /\ \E g \in Records :
          /\ Len(RecordOf(g).top_emotions) >= 2
          /\ RecordOf(g).top_emotions[1].score.num > 0
          /\ RecordOf(g).top_emotions[2].score = RecordOf(g).top_emotions[1].score

(* C29: the report has a record for (speaker, bucket b) exactly when some  *)
(* row of that speaker with quintile b carries a slot, whatever the         *)
(* durations of the group's rows; every speaker_id of the table is a key of *)
(* the report's speakers, also when it has no record.                       *)
C29_RecordIffSlot ==
    Succeeded =>
        /\ DOMAIN quintile_analysis.speakers = {Rows[r].speaker_id : r \in 1..Len(Rows)}
        /\ \A speaker \in DOMAIN quintile_analysis.speakers, b \in 0..4 :
              BucketLabels[b + 1] \in DOMAIN quintile_analysis.speakers[speaker]
                 <=> \E r \in RowsOf(speaker, b) : Len(Rows[r].slots) >= 1

C29_Witness ==
    /\ Succeeded
    /\ \E speaker \in DOMAIN quintile_analysis.speakers :
          quintile_analysis.speakers[speaker] = EmptyDict
    /\ \E speaker \in DOMAIN quintile_analysis.speakers, b \in 0..4 :
          /\ BucketLabels[b + 1] \in DOMAIN quintile_analysis.speakers[speaker]
          /\ \A r \in RowsOf(speaker, b) : Rows[r].end_time = Rows[r].start_time

(* C30: no two rows of the returned table have the same (speaker_id, *)
(* start_time, end_time).                                            *)
C30_UniqueKeys ==
    Succeeded =>
        \A r1, r2 \in 1..Len(Rows) : Key(Rows[r1]) = Key(Rows[r2]) => r1 = r2

(* the Hume job failed or ran out of time, the predictions could not be *)
(* retrieved or saved, or process_sentiment_data returned None           *)
HumeFailed(o) ==
    \/ o.fails \in {"submit", "wait", "predictions", "save_predictions"}
    \/ o.fails \in {"save_processed_data", "none"} /\ ReturnsNone(o.payload)

(* C27: a job of an audio file whose Hume job failed or did not complete,  *)
(* whose predictions could not be retrieved or saved, or whose              *)
(* process_sentiment_data returned None has the status failed once its      *)
(* background task has run; it is never completed.                          *)
C27_CompletedOnlyOnSuccess ==
    \A job_id \in DOMAIN outcomes :
        (outcomes[job_id].task.is_audio /\ HumeFailed(outcomes[job_id].services))
        => processing_jobs[job_id].status = "failed"

====
